---- MODULE Spec2Model ----
(***************************************************************************)
(* Model of the SSF-DCF coding-plan configuration                          *)
(* (src/configuration/coding_plans.py) and of the contact exporter         *)
(* (src/export_initial_contacts.py).                                       *)
(*                                                                         *)
(* Python strings on which the code performs string operations (replace,   *)
(* lower, concatenation, str(int)) are sequences of one-character strings. *)
(* Strings that are only stored and compared are TLA+ strings.             *)
(***************************************************************************)
EXTENDS Integers, Sequences, FiniteSets

VARIABLES
    \* ---- plan catalogs: the argument and the outcome of the last call of each
    rqa_call, demog_call, follow_up_call, engagement_call,
    \* ---- age cleaner: the library cleaner, the last text cleaned, the value returned
    swahili_clean_age, age_text, age_coded,
    \* ---- location cleaners: the library cleaners, the last text, the two coded fields
    somali_cleaners, location_text, mogadishu_sub_district_coded, district_coded,
    \* ---- contact exporter (the script's local variables and its position)
    pc, abort_cause, n_files, file_no, row_no,
    uuids, location_counts, file_uuids, file_location_counts, log,
    cumulative_increments, file_increments,
    uuid_phone_number_lut, to_convert, phone_numbers, skipped_uuids,
    to_write, output_csv

catalogVars == <<rqa_call, demog_call, follow_up_call, engagement_call>>
ageVars == <<swahili_clean_age, age_text, age_coded>>
locationVars == <<somali_cleaners, location_text, mogadishu_sub_district_coded, district_coded>>
exportVars == <<pc, abort_cause, n_files, file_no, row_no,
                uuids, location_counts, file_uuids, file_location_counts, log,
                cumulative_increments, file_increments,
                uuid_phone_number_lut, to_convert, phone_numbers, skipped_uuids,
                to_write, output_csv>>
vars == <<catalogVars, ageVars, locationVars, exportVars>>

(***************************************************************************)
(* Python string operations.                                               *)
(***************************************************************************)
UpperCase == <<"A","B","C","D","E","F","G","H","I","J","K","L","M","N","O","P","Q","R","S","T","U","V","W","X","Y","Z">>
LowerCase == <<"a","b","c","d","e","f","g","h","i","j","k","l","m","n","o","p","q","r","s","t","u","v","w","x","y","z">>
Digits == <<"0","1","2","3","4","5","6","7","8","9">>

\* s[from:] starts with the sequence `old`
StartsWithAt(s, from, old) ==
    /\ from + Len(old) - 1 <= Len(s)
    /\ \A k \in 1..Len(old) : s[from + k - 1] = old[k]

\* str.replace(old, new) from position `from` on: every non-overlapping
\* occurrence, left to right.
RECURSIVE ReplaceFrom(_, _, _, _)
ReplaceFrom(s, from, old, new) ==
    IF from > Len(s) THEN <<>>
    ELSE IF Len(old) > 0 /\ StartsWithAt(s, from, old)
         THEN new \o ReplaceFrom(s, from + Len(old), old, new)
         ELSE <<s[from]>> \o ReplaceFrom(s, from + 1, old, new)

\* A plausible slip: only the first character of `old` is dropped.
StrReplaceDropsOne(s, old, new) == IF Len(s) > 0 THEN Tail(s) ELSE s

StrReplace(s, old, new) == ReplaceFrom(s, 1, old, new)

LowerChar(c) ==
    IF \E i \in 1..Len(UpperCase) : UpperCase[i] = c
    THEN LowerCase[CHOOSE i \in 1..Len(UpperCase) : UpperCase[i] = c]
    ELSE c

StrLower(s) == [i \in 1..Len(s) |-> LowerChar(s[i])]

\* str(n) for an int n >= 0: its decimal digits, most significant first
RECURSIVE StrOfInt(_)
StrOfInt(n) ==
    IF n < 10 THEN <<Digits[n + 1]>>
    ELSE StrOfInt(n \div 10) \o <<Digits[(n % 10) + 1]>>

(***************************************************************************)
(* Library values the configuration refers to.                             *)
(***************************************************************************)
\* Codes.NOT_CODED of core_data_modules: the string "NC"
NOT_CODED == <<"N","C">>

MULTIPLE == "CodingModes.MULTIPLE"
SINGLE == "CodingModes.SINGLE"

\* A Python None
None == "None"

\* FoldStrategies.<name> used as a value; a lambda that binds a code scheme
\* records the scheme it closes over.
FoldStrategy(name, bound_scheme) == [strategy |-> name, code_scheme |-> bound_scheme]

\* CodeSchemes.WS_CORRECT_DATASET_SCHEME.get_code_with_match_value(match_value)
get_code_with_match_value(match_value) ==
    [scheme |-> "WS_CORRECT_DATASET_SCHEME", match_value |-> match_value]

\* CodingConfiguration(...): a value object; include_in_theme_distribution
\* defaults to true and cleaner to None when the call does not pass them.
DefaultIncludeInThemeDistribution == TRUE

CodingConfiguration(coding_mode, code_scheme, cleaner, coded_field, analysis_file_key, fold_strategy, include_in_theme_distribution) ==
    [coding_mode |-> coding_mode, code_scheme |-> code_scheme, cleaner |-> cleaner,
     coded_field |-> coded_field, analysis_file_key |-> analysis_file_key,
     fold_strategy |-> fold_strategy,
     include_in_theme_distribution |-> include_in_theme_distribution]

\* CodingPlan(...): a value object holding what it was given
CodingPlan(dataset_name, raw_field, time_field, run_id_field, coda_filename, icr_filename, coding_configurations, code_imputation_function, ws_code, raw_field_fold_strategy) ==
    [dataset_name |-> dataset_name, raw_field |-> raw_field, time_field |-> time_field,
     run_id_field |-> run_id_field, coda_filename |-> coda_filename,
     icr_filename |-> icr_filename, coding_configurations |-> coding_configurations,
     code_imputation_function |-> code_imputation_function, ws_code |-> ws_code,
     raw_field_fold_strategy |-> raw_field_fold_strategy]

(***************************************************************************)
(* coding_plans.py: the RQA catalog.                                       *)
(***************************************************************************)
\* A plausible slip: the RQA configuration folds as a SINGLE-mode field does.
make_rqa_coding_plan_wrong_fold(episode_name, code_scheme, ws_match_value, coda_filename) ==
    CodingPlan(StrReplace(episode_name, <<"r","q","a","_">>, <<>>),
               episode_name \o <<"_","r","a","w">>,
               "sent_on",
               episode_name \o <<"_","r","u","n","_","i","d">>,
               coda_filename \o <<".","j","s","o","n">>,
               StrLower(coda_filename) \o <<".","c","s","v">>,
               << CodingConfiguration(MULTIPLE, code_scheme, None,
                                      episode_name \o <<"_","c","o","d","e","d">>,
                                      episode_name,
                                      FoldStrategy("assert_label_ids_equal", None),
                                      DefaultIncludeInThemeDistribution) >>,
               None,
               get_code_with_match_value(ws_match_value),
               FoldStrategy("concatenate", None))

make_rqa_coding_plan(episode_name, code_scheme, ws_match_value, coda_filename) ==
    CodingPlan(StrReplace(episode_name, <<"r","q","a","_">>, <<>>),
               episode_name \o <<"_","r","a","w">>,
               "sent_on",
               episode_name \o <<"_","r","u","n","_","i","d">>,
               coda_filename \o <<".","j","s","o","n">>,
               StrLower(coda_filename) \o <<".","c","s","v">>,
               << CodingConfiguration(MULTIPLE, code_scheme, None,
                                      episode_name \o <<"_","c","o","d","e","d">>,
                                      episode_name,
                                      FoldStrategy("list_of_labels", code_scheme),
                                      DefaultIncludeInThemeDistribution) >>,
               None,
               get_code_with_match_value(ws_match_value),
               FoldStrategy("concatenate", None))

\* The outcome of a call: the value returned, or the exception that left it
Returned(value) == [raised |-> None, value |-> value]

Raised(exception) == [raised |-> exception, value |-> <<>>]

DcfPlans ==
    << make_rqa_coding_plan(<<"r","q","a","_","d","c","f","_","s","0","1","e","0","1">>, "S01E01",
                            <<"s","s","f"," ","d","c","f"," ","s","0","1","e","0","1">>,
                            <<"S","S","F","_","D","C","F","_","s","0","1","e","0","1">>),
       make_rqa_coding_plan(<<"r","q","a","_","d","c","f","_","s","0","1","e","0","2">>, "S01E02",
                            <<"s","s","f"," ","d","c","f"," ","s","0","1","e","0","2">>,
                            <<"S","S","F","_","D","C","F","_","s","0","1","e","0","2">>),
       make_rqa_coding_plan(<<"r","q","a","_","d","c","f","_","s","0","1","e","0","3">>, "S01E03",
                            <<"s","s","f"," ","d","c","f"," ","s","0","1","e","0","3">>,
                            <<"S","S","F","_","D","C","F","_","s","0","1","e","0","3">>),
       make_rqa_coding_plan(<<"r","q","a","_","d","c","f","_","s","0","1","e","0","4">>, "S01E04",
                            <<"s","s","f"," ","d","c","f"," ","s","0","1","e","0","4">>,
                            <<"S","S","F","_","D","C","F","_","s","0","1","e","0","4">> ) >>

SldPlans ==
    << make_rqa_coding_plan(<<"r","q","a","_","s","l","d","_","s","0","1","e","0","1">>, "SLD_S01E01",
                            <<"s","s","f"," ","s","l","d"," ","s","0","1","e","0","1">>,
                            <<"S","S","F","_","S","L","D","_","s","0","1","e","0","1">>),
       make_rqa_coding_plan(<<"r","q","a","_","s","l","d","_","s","0","1","e","0","2">>, "SLD_S01E02",
                            <<"s","s","f"," ","s","l","d"," ","s","0","1","e","0","2">>,
                            <<"S","S","F","_","S","L","D","_","s","0","1","e","0","2">>),
       make_rqa_coding_plan(<<"r","q","a","_","s","l","d","_","s","0","1","e","0","3">>, "SLD_S01E03",
                            <<"s","s","f"," ","s","l","d"," ","s","0","1","e","0","3">>,
                            <<"S","S","F","_","S","L","D","_","s","0","1","e","0","3">>),
       make_rqa_coding_plan(<<"r","q","a","_","s","l","d","_","s","0","1","e","0","4">>, "SLD_S01E04",
                            <<"s","s","f"," ","s","l","d"," ","s","0","1","e","0","4">>,
                            <<"S","S","F","_","S","L","D","_","s","0","1","e","0","4">>),
       make_rqa_coding_plan(<<"r","q","a","_","s","l","d","_","s","0","1","e","0","5">>, "SLD_S01E05",
                            <<"s","s","f"," ","s","l","d"," ","s","0","1","e","0","5">>,
                            <<"S","S","F","_","S","L","D","_","s","0","1","e","0","5">>),
       make_rqa_coding_plan(<<"r","q","a","_","s","l","d","_","s","0","1","_","c","l","o","s","e","o","u","t">>,
                            "SLD_S01_CLOSEOUT",
                            <<"s","s","f"," ","s","l","d"," ","s","0","1"," ","c","l","o","s","e","o","u","t">>,
                            <<"S","S","F","_","S","L","D","_","s","0","1","_","c","l","o","s","e","o","u","t">>) >>

\* A plausible slip: the else branch returns without its assert.
get_rqa_coding_plans_no_assert(pipeline_name) ==
    IF pipeline_name = "SSF-DCF" THEN Returned(DcfPlans) ELSE Returned(SldPlans)

get_rqa_coding_plans(pipeline_name) ==
    IF pipeline_name = "SSF-DCF"
    THEN Returned(DcfPlans)
    ELSE IF pipeline_name # "SSF-SLD"
         THEN Raised("AssertionError")
         ELSE Returned(SldPlans)

(***************************************************************************)
(* coding_plans.py: the demographic catalog.  Field names are literals the *)
(* code only stores, kept as strings.                                      *)
(***************************************************************************)
GenderPlan ==
    CodingPlan(None, "gender_raw", "gender_time", None, "IMAQAL_gender.json", None,
               << CodingConfiguration(SINGLE, "GENDER", "somali.DemographicCleaner.clean_gender",
                                      "gender_coded", "gender",
                                      FoldStrategy("assert_label_ids_equal", None),
                                      DefaultIncludeInThemeDistribution) >>,
               None,
               get_code_with_match_value("gender"),
               FoldStrategy("assert_equal", None))

\* A plausible slip: the flag is put on the derived age category instead of the age.
AgePlanFlagOnCategory ==
    CodingPlan(None, "age_raw", "age_time", None, "IMAQAL_age.json", None,
               << CodingConfiguration(SINGLE, "AGE", "clean_age_with_range_filter",
                                      "age_coded", "age",
                                      FoldStrategy("assert_label_ids_equal", None),
                                      DefaultIncludeInThemeDistribution),
                  CodingConfiguration(SINGLE, "AGE_CATEGORY", None,
                                      "age_category_coded", "age_category",
                                      FoldStrategy("assert_label_ids_equal", None),
                                      FALSE) >>,
               "code_imputation_functions.impute_age_category",
               get_code_with_match_value("age"),
               FoldStrategy("assert_equal", None))

AgePlan ==
    CodingPlan(None, "age_raw", "age_time", None, "IMAQAL_age.json", None,
               << CodingConfiguration(SINGLE, "AGE", "clean_age_with_range_filter",
                                      "age_coded", "age",
                                      FoldStrategy("assert_label_ids_equal", None),
                                      FALSE),
                  CodingConfiguration(SINGLE, "AGE_CATEGORY", None,
                                      "age_category_coded", "age_category",
                                      FoldStrategy("assert_label_ids_equal", None),
                                      DefaultIncludeInThemeDistribution) >>,
               "code_imputation_functions.impute_age_category",
               get_code_with_match_value("age"),
               FoldStrategy("assert_equal", None))

RecentlyDisplacedPlan ==
    CodingPlan(None, "recently_displaced_raw", "recently_displaced_time", None,
               "IMAQAL_recently_displaced.json", None,
               << CodingConfiguration(SINGLE, "RECENTLY_DISPLACED",
                                      "somali.DemographicCleaner.clean_yes_no",
                                      "recently_displaced_coded", "recently_displaced",
                                      FoldStrategy("assert_label_ids_equal", None),
                                      DefaultIncludeInThemeDistribution) >>,
               None,
               get_code_with_match_value("recently displaced"),
               FoldStrategy("assert_equal", None))

HouseholdLanguagePlan ==
    CodingPlan(None, "household_language_raw", "household_language_time", None,
               "IMAQAL_household_language.json", None,
               << CodingConfiguration(SINGLE, "HOUSEHOLD_LANGUAGE", None,
                                      "household_language_coded", "household_language",
                                      FoldStrategy("assert_label_ids_equal", None),
                                      DefaultIncludeInThemeDistribution) >>,
               None,
               get_code_with_match_value("hh language"),
               FoldStrategy("assert_equal", None))

\* A plausible slip: the region configuration is pasted from the district one
\* and keeps its analysis_file_key.
LocationPlanPastedKey ==
    CodingPlan(None, "location_raw", "location_time", None, "IMAQAL_location.json", None,
               << CodingConfiguration(SINGLE, "MOGADISHU_SUB_DISTRICT",
                                      "somali.DemographicCleaner.clean_mogadishu_sub_district",
                                      "mogadishu_sub_district_coded", "mogadishu_sub_district",
                                      FoldStrategy("assert_label_ids_equal", None), FALSE),
                  CodingConfiguration(SINGLE, "SOMALIA_DISTRICT",
                                      "clean_district_if_no_mogadishu_sub_district",
                                      "district_coded", "district",
                                      FoldStrategy("assert_label_ids_equal", None), FALSE),
                  CodingConfiguration(SINGLE, "SOMALIA_REGION", None,
                                      "region_coded", "district",
                                      FoldStrategy("assert_label_ids_equal", None),
                                      DefaultIncludeInThemeDistribution),
                  CodingConfiguration(SINGLE, "SOMALIA_STATE", None,
                                      "state_coded", "state",
                                      FoldStrategy("assert_label_ids_equal", None),
                                      DefaultIncludeInThemeDistribution),
                  CodingConfiguration(SINGLE, "SOMALIA_ZONE", None,
                                      "zone_coded", "zone",
                                      FoldStrategy("assert_label_ids_equal", None), FALSE) >>,
               "code_imputation_functions.impute_somalia_location_codes",
               get_code_with_match_value("location"),
               FoldStrategy("assert_equal", None))

LocationPlan ==
    CodingPlan(None, "location_raw", "location_time", None, "IMAQAL_location.json", None,
               << CodingConfiguration(SINGLE, "MOGADISHU_SUB_DISTRICT",
                                      "somali.DemographicCleaner.clean_mogadishu_sub_district",
                                      "mogadishu_sub_district_coded", "mogadishu_sub_district",
                                      FoldStrategy("assert_label_ids_equal", None), FALSE),
                  CodingConfiguration(SINGLE, "SOMALIA_DISTRICT",
                                      "clean_district_if_no_mogadishu_sub_district",
                                      "district_coded", "district",
                                      FoldStrategy("assert_label_ids_equal", None), FALSE),
                  CodingConfiguration(SINGLE, "SOMALIA_REGION", None,
                                      "region_coded", "region",
                                      FoldStrategy("assert_label_ids_equal", None),
                                      DefaultIncludeInThemeDistribution),
                  CodingConfiguration(SINGLE, "SOMALIA_STATE", None,
                                      "state_coded", "state",
                                      FoldStrategy("assert_label_ids_equal", None),
                                      DefaultIncludeInThemeDistribution),
                  CodingConfiguration(SINGLE, "SOMALIA_ZONE", None,
                                      "zone_coded", "zone",
                                      FoldStrategy("assert_label_ids_equal", None), FALSE) >>,
               "code_imputation_functions.impute_somalia_location_codes",
               get_code_with_match_value("location"),
               FoldStrategy("assert_equal", None))

\* pipeline_name is not read
get_demog_coding_plans(pipeline_name) ==
    Returned(<<GenderPlan, AgePlan, RecentlyDisplacedPlan, HouseholdLanguagePlan, LocationPlan>>)

get_follow_up_coding_plans(pipeline_name) == Returned(<<>>)

get_engagement_coding_plans(pipeline_name) == Returned(<<>>)

(***************************************************************************)
(* The pipeline driver's calls of the catalogs.                            *)
(***************************************************************************)
\* Pipeline names a driver may pass: the two known variants, a misspelt one
\* and another project's.
PipelineNames == {"SSF-DCF", "SSF-SLD", "ssf-dcf", "IMAQAL"}

NotCalled == [called |-> FALSE, pipeline_name |-> None, outcome |-> Returned(<<>>)]

Call(pipeline_name, outcome) ==
    [called |-> TRUE, pipeline_name |-> pipeline_name, outcome |-> outcome]

CatalogIdle ==
    /\ rqa_call = NotCalled
    /\ demog_call = NotCalled
    /\ follow_up_call = NotCalled
    /\ engagement_call = NotCalled

CallGetRqaCodingPlans(pipeline_name) ==
    /\ rqa_call' = Call(pipeline_name, get_rqa_coding_plans(pipeline_name))
    /\ UNCHANGED <<demog_call, follow_up_call, engagement_call>>

CallGetDemogCodingPlans(pipeline_name) ==
    /\ demog_call' = Call(pipeline_name, get_demog_coding_plans(pipeline_name))
    /\ UNCHANGED <<rqa_call, follow_up_call, engagement_call>>

CallGetFollowUpCodingPlans(pipeline_name) ==
    /\ follow_up_call' = Call(pipeline_name, get_follow_up_coding_plans(pipeline_name))
    /\ UNCHANGED <<rqa_call, demog_call, engagement_call>>

CallGetEngagementCodingPlans(pipeline_name) ==
    /\ engagement_call' = Call(pipeline_name, get_engagement_coding_plans(pipeline_name))
    /\ UNCHANGED <<rqa_call, demog_call, follow_up_call>>

(***************************************************************************)
(* coding_plans.py: the two local cleaner composites.  The library         *)
(* cleaners they call are pure functions of the text whose results the     *)
(* configuration cannot choose: each is a table fixed when a run starts.   *)
(***************************************************************************)
\* Raw texts a respondent may have sent
Texts == {"text_a", "text_b", "text_c"}

\* Largest number the age cleaner reads out of a text
MaxAge == 101

\* A Python value with its type: clean_age returns an int or Codes.NOT_CODED
PyInt(n) == [type |-> "int", int |-> n, str |-> <<>>]

PyStr(s) == [type |-> "str", int |-> 0, str |-> s]

AgeTexts == {"text_a", "text_b"}

CleanAgeResults == {PyInt(n) : n \in 0..MaxAge} \cup {PyStr(NOT_CODED)}

\* A plausible slip: the upper end of the range is included.
clean_age_with_range_filter_inclusive(text) ==
    LET age == swahili_clean_age[text]
    IN  IF age.type = "int" /\ 10 <= age.int /\ age.int <= 100
        THEN StrOfInt(age.int)
        ELSE NOT_CODED

clean_age_with_range_filter(text) ==
    LET age == swahili_clean_age[text]
    IN  IF age.type = "int" /\ 10 <= age.int /\ age.int < 100
        THEN StrOfInt(age.int)
        ELSE NOT_CODED

AgeIdle ==
    /\ swahili_clean_age = [t \in AgeTexts |-> PyStr(NOT_CODED)]
    /\ age_text = None
    /\ age_coded = NOT_CODED

AgeInit ==
    /\ swahili_clean_age \in [AgeTexts -> CleanAgeResults]
    /\ age_text = None
    /\ age_coded = NOT_CODED

\* The age plan's cleaner, lambda text: clean_age_with_range_filter(text),
\* applied to a raw text
CleanAge(text) ==
    /\ age_text' = text
    /\ age_coded' = clean_age_with_range_filter(text)
    /\ UNCHANGED swahili_clean_age

\* Codes the Somali location cleaners can return besides NOT_CODED
MogadishuSubDistrictCodes == { <<"h","o","d","a","n">> }

SomaliaDistrictCodes == { <<"b","a","i","d","o","a">>, <<"m","o","g","a","d","i","s","h","u">> }

clean_mogadishu_sub_district(text) == somali_cleaners.clean_mogadishu_sub_district[text]

clean_somalia_district(text) == somali_cleaners.clean_somalia_district[text]

\* A plausible slip: the district is resolved whatever the sub-district cleaner found.
clean_district_unconditionally(text) == clean_somalia_district(text)

clean_district_if_no_mogadishu_sub_district(text) ==
    LET mogadishu_sub_district == clean_mogadishu_sub_district(text)
    IN  IF mogadishu_sub_district = NOT_CODED
        THEN clean_somalia_district(text)
        ELSE NOT_CODED

LocationIdle ==
    /\ somali_cleaners = [clean_mogadishu_sub_district |-> [t \in Texts |-> NOT_CODED],
                          clean_somalia_district |-> [t \in Texts |-> NOT_CODED]]
    /\ location_text = None
    /\ mogadishu_sub_district_coded = NOT_CODED
    /\ district_coded = NOT_CODED

LocationInit ==
    /\ somali_cleaners \in
         [clean_mogadishu_sub_district : [Texts -> MogadishuSubDistrictCodes \cup {NOT_CODED}],
          clean_somalia_district : [Texts -> SomaliaDistrictCodes \cup {NOT_CODED}]]
    /\ location_text = None
    /\ mogadishu_sub_district_coded = NOT_CODED
    /\ district_coded = NOT_CODED

\* The location plan's first two configurations, each cleaner applied to the
\* same raw text
CleanLocation(text) ==
    /\ location_text' = text
    /\ mogadishu_sub_district_coded' = clean_mogadishu_sub_district(text)
    /\ district_coded' = clean_district_if_no_mogadishu_sub_district(text)
    /\ UNCHANGED somali_cleaners

(***************************************************************************)
(* export_initial_contacts.py: the script, one action per step.  A csv     *)
(* file's rows are read as the row loop reaches them.                      *)
(***************************************************************************)
\* Most input csv files on the command line, and most rows in one file
MaxFiles == 2

MaxRows == 2

\* SomaliaCodes.GALMUDUG, SomaliaCodes.SOUTH_WEST_STATE, Codes.STOP, and a
\* state that is no target
GALMUDUG == "galmudug"

SOUTH_WEST_STATE == "south west state"

STOP == "STOP"

BANADIR == "banadir"

TARGET_LOCATIONS == {GALMUDUG, SOUTH_WEST_STATE}

RowStates == TARGET_LOCATIONS \cup {STOP, BANADIR}

Uids == {"avf-phone-uuid-1", "avf-phone-uuid-2"}

\* Phone numbers the uuid table may hold
PhoneData == { <<"2","5","2","6","1">>, <<"2","5","2","6","2">> }

\* A csv row as DictReader gives it: a dict that may lack either column
Rows ==
    {[state |-> s, uid |-> u] : s \in RowStates, u \in Uids}
        \cup {[state |-> s] : s \in RowStates}
        \cup {[uid |-> u] : u \in Uids}

ZeroCounts == [location \in TARGET_LOCATIONS |-> 0]

NoIncrements == [uid \in Uids |-> 0]

UnboundLut == [bound |-> FALSE, data |-> <<>>]

NoOutput == [exists |-> FALSE, header |-> <<>>, rows |-> <<>>]

ExportIdle ==
    /\ pc = "idle"
    /\ abort_cause = None
    /\ n_files = 0
    /\ file_no = 0
    /\ row_no = 0
    /\ uuids = {}
    /\ location_counts = ZeroCounts
    /\ file_uuids = {}
    /\ file_location_counts = ZeroCounts
    /\ log = <<>>
    /\ cumulative_increments = NoIncrements
    /\ file_increments = NoIncrements
    /\ uuid_phone_number_lut = UnboundLut
    /\ to_convert = {}
    /\ phone_numbers = {}
    /\ skipped_uuids = {}
    /\ to_write = {}
    /\ output_csv = NoOutput

\* The script starts with one or more input paths (nargs="+") and no output
ExportInit ==
    /\ pc = "load_configuration"
    /\ abort_cause = None
    /\ n_files \in 1..MaxFiles
    /\ file_no = 0
    /\ row_no = 0
    /\ uuids = {}
    /\ location_counts = ZeroCounts
    /\ file_uuids = {}
    /\ file_location_counts = ZeroCounts
    /\ log = <<>>
    /\ cumulative_increments = NoIncrements
    /\ file_increments = NoIncrements
    /\ uuid_phone_number_lut = UnboundLut
    /\ to_convert = {}
    /\ phone_numbers = {}
    /\ skipped_uuids = {}
    /\ to_write = {}
    /\ output_csv = NoOutput

\* An unhandled exception ends the process where it stands
Abort(cause) ==
    /\ pc' = "aborted"
    /\ abort_cause' = cause

collectionVars == <<uuids, location_counts, file_uuids, file_location_counts, log, cumulative_increments, file_increments>>

resolveVars == <<uuid_phone_number_lut, to_convert, phone_numbers, skipped_uuids>>

LoadConfiguration ==
    /\ pc = "load_configuration"
    /\ pc' = "init_uuid_table"
    /\ UNCHANGED <<abort_cause, n_files, file_no, row_no, collectionVars, resolveVars, to_write, output_csv>>

LoadConfigurationFails ==
    /\ pc = "load_configuration"
    /\ Abort("pipeline configuration")
    /\ UNCHANGED <<n_files, file_no, row_no, collectionVars, resolveVars, to_write, output_csv>>

\* Credentials downloaded and the table initialised; uuids and
\* location_counts start empty
InitUuidTable ==
    /\ pc = "init_uuid_table"
    /\ pc' = "next_file"
    /\ uuids' = {}
    /\ location_counts' = ZeroCounts
    /\ UNCHANGED <<abort_cause, n_files, file_no, row_no, file_uuids, file_location_counts, log, cumulative_increments, file_increments, resolveVars, to_write, output_csv>>

InitUuidTableFails ==
    /\ pc = "init_uuid_table"
    /\ Abort("uuid table initialisation")
    /\ UNCHANGED <<n_files, file_no, row_no, collectionVars, resolveVars, to_write, output_csv>>

\* for path in csv_input_file_path: the file is loaded and the per-file
\* accumulators start empty
StartFile ==
    /\ pc = "next_file"
    /\ file_no < n_files
    /\ file_no' = file_no + 1
    /\ row_no' = 0
    /\ file_uuids' = {}
    /\ file_location_counts' = ZeroCounts
    /\ file_increments' = NoIncrements
    /\ pc' = "rows"
    /\ UNCHANGED <<abort_cause, n_files, uuids, location_counts, log, cumulative_increments, resolveVars, to_write, output_csv>>

StartFileFails ==
    /\ pc = "next_file"
    /\ file_no < n_files
    /\ Abort("csv input")
    /\ UNCHANGED <<n_files, file_no, row_no, collectionVars, resolveVars, to_write, output_csv>>

\* A plausible slip: the running total is guarded by the per-file set.
FirstOccurrenceInRunUsesFileSet(uid) == uid \notin file_uuids

FirstOccurrenceInRun(uid) == uid \notin uuids

FirstOccurrenceInFile(uid) == uid \notin file_uuids

\* The row is skipped: STOP, no target location, or no uid column
RowIsSkipped(row) ==
    \/ row.state = STOP
    \/ row.state \notin TARGET_LOCATIONS
    \/ "uid" \notin DOMAIN row

\* for row in data: one pass of the loop body
ProcessRow(row) ==
    /\ pc = "rows"
    /\ row_no < MaxRows
    /\ "state" \in DOMAIN row
    /\ row_no' = row_no + 1
    /\ IF RowIsSkipped(row)
       THEN UNCHANGED <<file_uuids, file_location_counts, file_increments, uuids, location_counts, cumulative_increments>>
       ELSE /\ IF FirstOccurrenceInFile(row.uid)
               THEN /\ file_location_counts' = [file_location_counts EXCEPT ![row.state] = @ + 1]
                    /\ file_increments' = [file_increments EXCEPT ![row.uid] = @ + 1]
                    /\ file_uuids' = file_uuids \cup {row.uid}
               ELSE UNCHANGED <<file_uuids, file_location_counts, file_increments>>
            /\ IF FirstOccurrenceInRun(row.uid)
               THEN /\ location_counts' = [location_counts EXCEPT ![row.state] = @ + 1]
                    /\ cumulative_increments' = [cumulative_increments EXCEPT ![row.uid] = @ + 1]
                    /\ uuids' = uuids \cup {row.uid}
               ELSE UNCHANGED <<uuids, location_counts, cumulative_increments>>
    /\ UNCHANGED <<pc, abort_cause, n_files, file_no, log, resolveVars, to_write, output_csv>>

\* row["state"] on a file without that column
ProcessRowKeyError(row) ==
    /\ pc = "rows"
    /\ row_no < MaxRows
    /\ "state" \notin DOMAIN row
    /\ Abort("KeyError")
    /\ UNCHANGED <<n_files, file_no, row_no, collectionVars, resolveVars, to_write, output_csv>>

\* The rows of the file are exhausted: its counts and the running totals are
\* logged, and the loop goes on to the next path or ends
EndFile ==
    /\ pc = "rows"
    /\ log' = Append(log, [file_uuids |-> file_uuids,
                           file_location_counts |-> file_location_counts,
                           running_total |-> Cardinality(uuids),
                           location_counts |-> location_counts])
    /\ pc' = IF file_no < n_files THEN "next_file" ELSE "lookup"
    /\ UNCHANGED <<abort_cause, n_files, file_no, row_no, uuids, location_counts, file_uuids, file_location_counts, cumulative_increments, file_increments, resolveVars, to_write, output_csv>>

\* What the uuid table may answer for a batch: the data of the uuids it holds
LookupResults(batch) == UNION {[found -> PhoneData] : found \in SUBSET batch}

\* uuid_to_data_batch(uuids) returns; the two result sets start empty
UuidToDataBatch(lut) ==
    /\ pc = "lookup"
    /\ uuid_phone_number_lut' = [bound |-> TRUE, data |-> lut]
    /\ phone_numbers' = {}
    /\ skipped_uuids' = {}
    /\ to_convert' = uuids
    /\ pc' = IF uuids = {} THEN "open_output" ELSE "convert"
    /\ UNCHANGED <<abort_cause, n_files, file_no, row_no, collectionVars, to_write, output_csv>>

UuidToDataBatchFails ==
    /\ pc = "lookup"
    /\ Abort("uuid table lookup")
    /\ UNCHANGED <<n_files, file_no, row_no, collectionVars, resolveVars, to_write, output_csv>>

\* f"+{value}"
PlusPrefixed(value) == <<"+">> \o value

\* A plausible slip: a uuid the table does not hold is dropped unrecorded.
SkippedAfterForgetting(uuid) == skipped_uuids

SkippedAfter(uuid) ==
    IF uuid \in DOMAIN uuid_phone_number_lut.data
    THEN skipped_uuids
    ELSE skipped_uuids \cup {uuid}

PhoneNumbersAfter(uuid) ==
    IF uuid \in DOMAIN uuid_phone_number_lut.data
    THEN phone_numbers \cup {PlusPrefixed(uuid_phone_number_lut.data[uuid])}
    ELSE phone_numbers

\* for uuid in uuids: one pass, in whatever order the set iterates
ConvertUuid(uuid) ==
    /\ pc = "convert"
    /\ uuid \in to_convert
    /\ phone_numbers' = PhoneNumbersAfter(uuid)
    /\ skipped_uuids' = SkippedAfter(uuid)
    /\ to_convert' = to_convert \ {uuid}
    /\ pc' = IF to_convert' = {} THEN "open_output" ELSE "convert"
    /\ UNCHANGED <<abort_cause, n_files, file_no, row_no, collectionVars, uuid_phone_number_lut, to_write, output_csv>>

\* A plausible slip: the output file is opened before the lookup is made.
OpenOutputBeforeLookup ==
    /\ pc = "lookup"
    /\ ~output_csv.exists
    /\ output_csv' = [exists |-> TRUE, header |-> <<"URN:Tel", "Name">>, rows |-> <<>>]
    /\ UNCHANGED <<pc, abort_cause, n_files, file_no, row_no, collectionVars, resolveVars, to_write>>

\* open(csv_output_file_path, "w") and writeheader()
OpenOutput ==
    /\ pc = "open_output"
    /\ output_csv' = [exists |-> TRUE, header |-> <<"URN:Tel", "Name">>, rows |-> <<>>]
    /\ to_write' = phone_numbers
    /\ pc' = IF phone_numbers = {} THEN "done" ELSE "write_rows"
    /\ UNCHANGED <<abort_cause, n_files, file_no, row_no, collectionVars, resolveVars>>

\* for n in phone_numbers: writerow({"URN:Tel": n}); Name is left empty
WriteRow(n) ==
    /\ pc = "write_rows"
    /\ n \in to_write
    /\ output_csv' = [output_csv EXCEPT !.rows = Append(@, <<n, <<>>>>)]
    /\ to_write' = to_write \ {n}
    /\ pc' = IF to_write' = {} THEN "done" ELSE "write_rows"
    /\ UNCHANGED <<abort_cause, n_files, file_no, row_no, collectionVars, resolveVars>>

(***************************************************************************)
(* Specifications.                                                         *)
(***************************************************************************)
InitCatalog == CatalogIdle /\ AgeIdle /\ LocationIdle /\ ExportIdle

NextCatalog ==
    \/ \E pipeline_name \in PipelineNames :
          CallGetRqaCodingPlans(pipeline_name) /\ UNCHANGED <<ageVars, locationVars, exportVars>>
    \/ \E pipeline_name \in PipelineNames :
          CallGetDemogCodingPlans(pipeline_name) /\ UNCHANGED <<ageVars, locationVars, exportVars>>
    \/ \E pipeline_name \in PipelineNames :
          CallGetFollowUpCodingPlans(pipeline_name) /\ UNCHANGED <<ageVars, locationVars, exportVars>>
    \/ \E pipeline_name \in PipelineNames :
          CallGetEngagementCodingPlans(pipeline_name) /\ UNCHANGED <<ageVars, locationVars, exportVars>>

SpecCatalog == InitCatalog /\ [][NextCatalog]_vars

InitAge == CatalogIdle /\ AgeInit /\ LocationIdle /\ ExportIdle

NextAge ==
    \E text \in AgeTexts : CleanAge(text) /\ UNCHANGED <<catalogVars, locationVars, exportVars>>

SpecAge == InitAge /\ [][NextAge]_vars

InitLocation == CatalogIdle /\ AgeIdle /\ LocationInit /\ ExportIdle

NextLocation ==
    \E text \in Texts : CleanLocation(text) /\ UNCHANGED <<catalogVars, ageVars, exportVars>>

SpecLocation == InitLocation /\ [][NextLocation]_vars

InitExport == CatalogIdle /\ AgeIdle /\ LocationIdle /\ ExportInit

otherVars == <<catalogVars, ageVars, locationVars>>

NextExport ==
    \/ LoadConfiguration /\ UNCHANGED otherVars
    \/ LoadConfigurationFails /\ UNCHANGED otherVars
    \/ InitUuidTable /\ UNCHANGED otherVars
    \/ InitUuidTableFails /\ UNCHANGED otherVars
    \/ StartFile /\ UNCHANGED otherVars
    \/ StartFileFails /\ UNCHANGED otherVars
    \/ \E row \in Rows : ProcessRow(row) /\ UNCHANGED otherVars
    \/ \E row \in Rows : ProcessRowKeyError(row) /\ UNCHANGED otherVars
    \/ EndFile /\ UNCHANGED otherVars
    \/ \E lut \in LookupResults(uuids) : UuidToDataBatch(lut) /\ UNCHANGED otherVars
    \/ UuidToDataBatchFails /\ UNCHANGED otherVars
    \/ \E uuid \in Uids : ConvertUuid(uuid) /\ UNCHANGED otherVars
    \/ OpenOutput /\ UNCHANGED otherVars
    \/ \E n \in to_write : WriteRow(n) /\ UNCHANGED otherVars

SpecExport == InitExport /\ [][NextExport]_vars

(***************************************************************************)
(* Properties of the catalogs (checked under SpecCatalog).                 *)
(***************************************************************************)
RqaReturned == rqa_call.called /\ rqa_call.outcome.raised = None

DemogReturned == demog_call.called /\ demog_call.outcome.raised = None

\* The episodes each variant declares, without the "rqa_" prefix, in order
DeclaredDatasets(pipeline_name) ==
    IF pipeline_name = "SSF-DCF"
    THEN [i \in 1..4 |-> <<"d","c","f","_","s","0","1","e","0">> \o StrOfInt(i)]
    ELSE [i \in 1..5 |-> <<"s","l","d","_","s","0","1","e","0">> \o StrOfInt(i)]
             \o << <<"s","l","d","_","s","0","1","_","c","l","o","s","e","o","u","t">> >>

\* C1: for each accepted variant the RQA catalog returns exactly one plan per
\* declared episode, in declaration order (4 for SSF-DCF, 6 for SSF-SLD), and
\* each plan's dataset_name is its episode identifier without the "rqa_" prefix.
C1_OnePlanPerEpisode ==
    \A pipeline_name \in {"SSF-DCF", "SSF-SLD"} :
        (rqa_call.called /\ rqa_call.pipeline_name = pipeline_name) =>
            LET plans == rqa_call.outcome.value
                declared == DeclaredDatasets(pipeline_name)
            IN  /\ rqa_call.outcome.raised = None
                /\ Len(plans) = (IF pipeline_name = "SSF-DCF" THEN 4 ELSE 6)
                /\ Len(plans) = Len(declared)
                /\ \A i \in 1..Len(plans) :
                      \* the plan is the one of the i-th declared episode
                      /\ plans[i].coding_configurations[1].analysis_file_key
                             = <<"r","q","a","_">> \o declared[i]
                      /\ plans[i].raw_field
                             = <<"r","q","a","_">> \o declared[i] \o <<"_","r","a","w">>
                      /\ plans[i].dataset_name = declared[i]

C1_Witness ==
    /\ RqaReturned
    /\ rqa_call.pipeline_name = "SSF-SLD"
    /\ Len(rqa_call.outcome.value) = 6
    /\ rqa_call.outcome.value[6].dataset_name
           = <<"s","l","d","_","s","0","1","_","c","l","o","s","e","o","u","t">>

ModeCompatible(configuration) ==
    /\ configuration.coding_mode \in {SINGLE, MULTIPLE}
    /\ configuration.coding_mode = MULTIPLE
           => configuration.fold_strategy.strategy = "list_of_labels"
    /\ configuration.coding_mode = SINGLE
           => configuration.fold_strategy.strategy = "assert_label_ids_equal"

PlansModeCompatible(plans) ==
    \A i \in 1..Len(plans) :
        \A k \in 1..Len(plans[i].coding_configurations) :
            ModeCompatible(plans[i].coding_configurations[k])

\* C2: in every plan any catalog returns, each configuration's fold strategy
\* fits its coding mode (MULTIPLE folds with list_of_labels, SINGLE with
\* assert_label_ids_equal); RQA plans fold the raw field with concatenate and
\* demographic plans with assert_equal.
C2_FoldStrategyFitsMode ==
    /\ PlansModeCompatible(rqa_call.outcome.value)
    /\ PlansModeCompatible(demog_call.outcome.value)
    /\ PlansModeCompatible(follow_up_call.outcome.value)
    /\ PlansModeCompatible(engagement_call.outcome.value)
    /\ \A i \in 1..Len(rqa_call.outcome.value) :
          /\ rqa_call.outcome.value[i].raw_field_fold_strategy.strategy = "concatenate"
          /\ \A k \in 1..Len(rqa_call.outcome.value[i].coding_configurations) :
                rqa_call.outcome.value[i].coding_configurations[k].coding_mode = MULTIPLE
    /\ \A i \in 1..Len(demog_call.outcome.value) :
          /\ demog_call.outcome.value[i].raw_field_fold_strategy.strategy = "assert_equal"
          /\ \A k \in 1..Len(demog_call.outcome.value[i].coding_configurations) :
                demog_call.outcome.value[i].coding_configurations[k].coding_mode = SINGLE

C2_Witness ==
    /\ RqaReturned
    /\ Len(rqa_call.outcome.value) = 4
    /\ DemogReturned
    /\ Len(demog_call.outcome.value) = 5
    /\ follow_up_call.called
    /\ engagement_call.called

\* The age plan of a returned demographic catalog
ReturnedAgePlan == demog_call.outcome.value[2]

\* C5 as stated: in the age plan the second configuration, the age category,
\* is excluded from theme-distribution analysis.
C5_CategoryExcluded ==
    DemogReturned =>
        /\ ReturnedAgePlan.raw_field = "age_raw"
        /\ ReturnedAgePlan.coding_configurations[2].include_in_theme_distribution = FALSE

\* C5 amended: in the age plan the first configuration, the numeric age, is
\* excluded from theme-distribution analysis; the second, the age category
\* written by the imputation function, keeps the default and is included.
C5_AgeExcludedCategoryIncluded ==
    DemogReturned =>
        /\ ReturnedAgePlan.raw_field = "age_raw"
        /\ Len(ReturnedAgePlan.coding_configurations) = 2
        /\ ReturnedAgePlan.coding_configurations[1].coded_field = "age_coded"
        /\ ReturnedAgePlan.coding_configurations[1].include_in_theme_distribution = FALSE
        /\ ReturnedAgePlan.coding_configurations[2].coded_field = "age_category_coded"
        /\ ReturnedAgePlan.coding_configurations[2].include_in_theme_distribution = TRUE
        /\ ReturnedAgePlan.code_imputation_function
               = "code_imputation_functions.impute_age_category"

C5_Witness ==
    /\ DemogReturned
    /\ ReturnedAgePlan.raw_field = "age_raw"
    /\ ReturnedAgePlan.coding_configurations[2].coded_field = "age_category_coded"

\* C6: called with a variant outside {"SSF-DCF", "SSF-SLD"} the RQA catalog
\* raises an AssertionError and returns no plan list.
C6_UnknownVariantAsserts ==
    (rqa_call.called /\ rqa_call.pipeline_name \notin {"SSF-DCF", "SSF-SLD"}) =>
        /\ rqa_call.outcome.raised = "AssertionError"
        /\ rqa_call.outcome.value = <<>>

C6_Witness ==
    /\ rqa_call.called
    /\ rqa_call.pipeline_name = "ssf-dcf"
    /\ rqa_call.outcome.raised = "AssertionError"

DistinctFields(plan) ==
    \A j, k \in 1..Len(plan.coding_configurations) :
        j # k =>
            /\ plan.coding_configurations[j].coded_field
                   # plan.coding_configurations[k].coded_field
            /\ plan.coding_configurations[j].analysis_file_key
                   # plan.coding_configurations[k].analysis_file_key

\* C7: within every plan returned by the RQA and demographic catalogs the
\* configurations have pairwise distinct coded_field values and pairwise
\* distinct analysis_file_key values.
C7_FieldsUniqueWithinPlan ==
    /\ \A i \in 1..Len(rqa_call.outcome.value) : DistinctFields(rqa_call.outcome.value[i])
    /\ \A i \in 1..Len(demog_call.outcome.value) : DistinctFields(demog_call.outcome.value[i])

C7_Witness ==
    /\ DemogReturned
    /\ Len(demog_call.outcome.value[5].coding_configurations) = 5
    /\ RqaReturned
    /\ Len(rqa_call.outcome.value) = 6

(***************************************************************************)
(* Properties of the age cleaner (checked under SpecAge).                  *)
(***************************************************************************)
DigitValue(c) == (CHOOSE i \in 1..Len(Digits) : Digits[i] = c) - 1

IsDecimal(s) ==
    /\ Len(s) > 0
    /\ \A i \in 1..Len(s) : \E d \in 1..Len(Digits) : Digits[d] = s[i]
    /\ Len(s) > 1 => s[1] # "0"

\* The number a decimal string denotes
RECURSIVE DecimalValue(_)
DecimalValue(s) ==
    IF Len(s) = 0 THEN 0
    ELSE 10 * DecimalValue(SubSeq(s, 1, Len(s) - 1)) + DigitValue(s[Len(s)])

CleanedAge == swahili_clean_age[age_text]

\* C4: clean_age_with_range_filter returns the decimal string of the cleaned
\* age exactly when the age cleaner yields an integer a with 10 <= a < 100,
\* and NOT_CODED for every other input (no number, or a number below 10 or
\* at or above 100; 9 and 100 are rejected, 10 and 99 accepted).
C4_AgeRangeFilter ==
    age_text # None =>
        /\ (age_coded # NOT_CODED) <=>
               (CleanedAge.type = "int" /\ CleanedAge.int >= 10 /\ CleanedAge.int < 100)
        /\ age_coded # NOT_CODED =>
               /\ IsDecimal(age_coded)
               /\ DecimalValue(age_coded) = CleanedAge.int
        /\ (CleanedAge.type = "int" /\ CleanedAge.int \in {9, 100}) => age_coded = NOT_CODED
        /\ (CleanedAge.type = "int" /\ CleanedAge.int = 10) => age_coded = <<"1","0">>
        /\ (CleanedAge.type = "int" /\ CleanedAge.int = 99) => age_coded = <<"9","9">>
        /\ CleanedAge.type = "str" => age_coded = NOT_CODED

C4_Witness ==
    /\ age_text = "text_a"
    /\ swahili_clean_age["text_a"] = PyInt(100)
    /\ age_coded = NOT_CODED
    /\ swahili_clean_age["text_b"] = PyInt(99)

(***************************************************************************)
(* Properties of the location cleaners (checked under SpecLocation).       *)
(***************************************************************************)
\* C3 as stated: for every text exactly one of the sub-district code and the
\* district code is not NOT_CODED.
C3_ExactlyOneCoded ==
    location_text # None =>
        /\ mogadishu_sub_district_coded # NOT_CODED \/ district_coded # NOT_CODED
        /\ ~(mogadishu_sub_district_coded # NOT_CODED /\ district_coded # NOT_CODED)

\* C3 amended: the district cleaner returns NOT_CODED whenever the
\* Mogadishu-sub-district cleaner matches the text and the district cleaner's
\* result otherwise, so at most one of the two codes is not NOT_CODED: never
\* both, and neither when the text matches no sub-district and no district.
C3_AtMostOneCoded ==
    location_text # None =>
        /\ mogadishu_sub_district_coded = somali_cleaners.clean_mogadishu_sub_district[location_text]
        /\ mogadishu_sub_district_coded # NOT_CODED => district_coded = NOT_CODED
        /\ mogadishu_sub_district_coded = NOT_CODED =>
               district_coded = somali_cleaners.clean_somalia_district[location_text]
        /\ ~(mogadishu_sub_district_coded # NOT_CODED /\ district_coded # NOT_CODED)

\* A text both library cleaners match: only the sub-district is coded
C3_Witness ==
    /\ location_text # None
    /\ somali_cleaners.clean_mogadishu_sub_district[location_text] # NOT_CODED
    /\ somali_cleaners.clean_somalia_district[location_text] # NOT_CODED
    /\ mogadishu_sub_district_coded # NOT_CODED
    /\ district_coded = NOT_CODED

(***************************************************************************)
(* Properties of the contact exporter (checked under SpecExport).          *)
(***************************************************************************)
SumCounts(counts) == counts[GALMUDUG] + counts[SOUTH_WEST_STATE]

Resolved(uid) == uid \in DOMAIN uuid_phone_number_lut.data

\* The positions of the output rows that carry uid's phone number
RowsOf(uid) ==
    IF Resolved(uid)
    THEN {k \in 1..Len(output_csv.rows) :
             /\ Head(output_csv.rows[k][1]) = "+"
             /\ Tail(output_csv.rows[k][1]) = uuid_phone_number_lut.data[uid]}
    ELSE {}

\* First occurrences are counted once: per uid, per file and over the run
CountedOnce ==
    /\ \A uid \in Uids :
          /\ cumulative_increments[uid] = (IF uid \in uuids THEN 1 ELSE 0)
          /\ file_increments[uid] = (IF uid \in file_uuids THEN 1 ELSE 0)
    /\ SumCounts(location_counts) = Cardinality(uuids)
    /\ SumCounts(file_location_counts) = Cardinality(file_uuids)
    /\ \A i \in 1..Len(log) :
          /\ SumCounts(log[i].file_location_counts) = Cardinality(log[i].file_uuids)
          /\ SumCounts(log[i].location_counts) = log[i].running_total
          /\ log[i].file_uuids \subseteq uuids
    /\ \A i, j \in 1..Len(log) :
          i # j => \A uid \in log[i].file_uuids \cap log[j].file_uuids :
                      cumulative_increments[uid] = 1

\* The uids found in two different input files
InTwoFiles ==
    {uid \in Uids : \E i, j \in 1..Len(log) :
        i # j /\ uid \in log[i].file_uuids /\ uid \in log[j].file_uuids}

\* C8 as stated: first occurrences are never double-counted, and a uid that
\* appears in two files yields exactly one phone number in the output.
C8_CountedOnceAndOneRow ==
    /\ CountedOnce
    /\ pc = "done" => \A uid \in InTwoFiles : Cardinality(RowsOf(uid)) = 1

\* C8 amended: first occurrences are never double-counted (after every row
\* the cumulative counts sum to the size of the running uid set and the
\* file's counts to the size of the file's uid set; a uid in two files is
\* counted once in each file and once cumulatively), and such a uid yields
\* exactly one phone number in the output when the identity table holds it
\* and none when it does not.
C8_CountedOnceAndAtMostOneRow ==
    /\ CountedOnce
    /\ pc = "done" =>
          \A uid \in uuids :
              Cardinality(RowsOf(uid)) = (IF Resolved(uid) THEN 1 ELSE 0)

C8_Witness ==
    /\ pc = "done"
    /\ Len(log) = 2
    /\ \E uid \in InTwoFiles :
          /\ Resolved(uid)
          /\ Cardinality(RowsOf(uid)) = 1
          /\ cumulative_increments[uid] = 1
    /\ log[1].file_location_counts = log[2].file_location_counts
    /\ SumCounts(log[2].file_location_counts) = 1
    /\ SumCounts(location_counts) = 1

\* C9: the output csv is opened only after the batched identity-table lookup
\* has returned; when the table's initialisation or the lookup fails the run
\* aborts with no output file, not even its header.
C9_NoOutputBeforeLookup ==
    /\ output_csv.exists => (uuid_phone_number_lut.bound /\ pc # "aborted")
    /\ pc = "aborted" => output_csv = NoOutput
    /\ pc \in {"load_configuration", "init_uuid_table", "next_file", "rows", "lookup", "convert", "open_output"}
           => output_csv = NoOutput

C9_Witness ==
    /\ pc = "aborted"
    /\ abort_cause = "uuid table lookup"
    /\ uuids # {}
    /\ output_csv = NoOutput

\* C10: every collected uid ends in exactly one of two outcomes: held by the
\* identity table, its phone number with a "+" in front is in the output set;
\* otherwise it is in the skipped set, gets no output row, is counted as
\* unresolved, and the run still writes the csv for the resolved uids.
C10_ResolvedOrSkipped ==
    /\ pc \in {"convert", "open_output", "write_rows", "done"} =>
          /\ \A uid \in uuids \ to_convert :
                IF Resolved(uid)
                THEN /\ uid \notin skipped_uuids
                     /\ \E n \in phone_numbers :
                           Head(n) = "+" /\ Tail(n) = uuid_phone_number_lut.data[uid]
                ELSE uid \in skipped_uuids
          /\ skipped_uuids \subseteq {uid \in uuids : ~Resolved(uid)}
          /\ \A n \in phone_numbers :
                \E uid \in uuids : Resolved(uid) /\ Tail(n) = uuid_phone_number_lut.data[uid]
    /\ uuid_phone_number_lut.bound => pc # "aborted"
    /\ pc = "done" =>
          /\ to_convert = {}
          /\ Cardinality(skipped_uuids) = Cardinality({uid \in uuids : ~Resolved(uid)})
          /\ output_csv.exists
          /\ output_csv.header = <<"URN:Tel", "Name">>
          /\ {output_csv.rows[k][1] : k \in 1..Len(output_csv.rows)} = phone_numbers
          /\ Len(output_csv.rows) = Cardinality(phone_numbers)

C10_Witness ==
    /\ pc = "done"
    /\ skipped_uuids # {}
    /\ Len(output_csv.rows) = 1
    /\ Cardinality(uuids) = 2

====
